---------------------------- MODULE Spec2Model ----------------------------
(***************************************************************************)
(* A model of src/freeRTOS.ino: five FreeRTOS tasks (lcdTask,              *)
(* lightDetectorTask, lightDisplayTask, alarmTask, primeTask) created by   *)
(* setup(), two binary semaphores and one queue of capacity 5.             *)
(*                                                                         *)
(* Every task is a sequential program; one action models the code between  *)
(* two consecutive accesses to state another task can see (the volatile    *)
(* globals lightLevel and smaValue, the semaphores, the queue) or between  *)
(* two blocking calls.  lightLevel and smaValue are read and written       *)
(* without a lock, so every such access is a step of its own and the       *)
(* tasks interleave freely (preemptive scheduler with time slicing on      *)
(* core 0, true parallelism between core 0 and core 1).                    *)
(***************************************************************************)
EXTENDS Integers, Sequences, FiniteSets, TLC

\* ------------------------------------------------------------- bounds

\* Sampler cycles of a behaviour of SpecAlarm (Sampler and AlarmMonitor).
MaxCycles == 6

\* Sampler cycles of a behaviour of SpecDisplay (Sampler, DisplayComposer and
\* Renderer).
MaxCyclesDisplay == 3

\* Sampler cycles of a behaviour of Spec (the whole program).
MaxCyclesAll == 2
MaxCyclesQueue == 6
MaxCyclesFair == 3
MaxCyclesSteady == 2
MaxAhead == 2

\* primeTask's range is [2, MaxSmallRange] in Spec, and every [2, N] with
\* N <= MaxSmallRange beside the program's own [2, 5000] in SpecPrime.
MaxSmallRange == 10

\* ------------------------------------------------- program constants

WindowSize == 5
QueueLength == 5
LineSize == 16
HighThreshold == 3800
LowThreshold == 300
FlashCount == 3
HalfPeriodMs == 250
CoolDownMs == 2000
PrimeLimit == 5000
AdcMax == 4095

TaskNames == <<"LCD", "LightDetector", "LightDisplay", "Alarm", "Prime">>

\* ------------------------------------------------------------- state

VARIABLES
  \* setup()
  setupPc,          \* "alloc", "check", "create", "done", "halt"
  allocated,        \* [display, alarm, queue -> BOOLEAN]: handle is non-NULL
  tasks,            \* task name -> "absent", "alive", "deleted"
  \* synchronization objects
  displaySemaphore, \* 0 or 1
  alarmSemaphore,   \* 0 or 1
  lcdQueue,         \* sequence of lcd_message_t
  \* globals written by lightDetectorTask
  lightLevel, smaValue, lightHistory, historyIndex,
  \* lightDetectorTask locals
  sPc, sum,
  \* lightDisplayTask locals
  dPc, lastLight, lastSMA, msg,
  \* lcdTask locals and the display
  rPc, rMsg, lcd,
  \* alarmTask locals and the LED pin
  aPc, aI, led,
  \* primeTask locals
  pPc, num,
  \* environment: the values analogRead may return, the cycles explored,
  \* the prime range
  sensor, cycleCap, primeLimit,
  \* history (ghost) variables, read by no action's guard or assignment
  rawLog,           \* every value analogRead returned, in order
  sentLog,          \* every message xQueueSend accepted, in order
  renderedLog,      \* every message lcdTask printed, in order
  emitted,          \* every prime primeTask printed, in order
  yields,           \* number of vTaskDelay(10) calls of primeTask
  episodeLog,       \* LED writes and delays of the current alarm episode
  ledWrites,        \* number of digitalWrite calls so far
  aRead,            \* smaValue as last read by alarmTask's condition
  aTrig,            \* the value whose read started the current episode
  dRaised,          \* gives of displaySemaphore since its last take
  dCoalesced,       \* dRaised at the moment of the last take
  wake,             \* what lightDisplayTask read on the current wake
  prevWake          \* the same for the wake before

setupVars == <<setupPc, allocated, tasks>>
syncVars == <<displaySemaphore, alarmSemaphore, lcdQueue>>
sharedVars == <<lightLevel, smaValue, lightHistory, historyIndex>>
samplerVars == <<sPc, sum, rawLog>>
displayVars == <<dPc, lastLight, lastSMA, msg, sentLog, dCoalesced, wake, prevWake>>
lcdVars == <<rPc, rMsg, lcd, renderedLog>>
alarmVars == <<aPc, aI, led, episodeLog, ledWrites, aRead, aTrig>>
primeVars == <<pPc, num, emitted, yields>>
envVars == <<sensor, cycleCap, primeLimit>>

vars == <<setupVars, syncVars, sharedVars, samplerVars, displayVars, lcdVars,
          alarmVars, primeVars, envVars, dRaised>>

\* ----------------------------------------------------------- helpers

\* snprintf's "%d": the decimal digits of n, most significant first.
DigitChars == <<"0", "1", "2", "3", "4", "5", "6", "7", "8", "9">>

RECURSIVE Digits(_)
Digits(n) ==
  IF n < 0 THEN <<"-">> \o Digits(0 - n)
  ELSE IF n < 10 THEN <<DigitChars[n + 1]>>
  ELSE Digits(n \div 10) \o <<DigitChars[(n % 10) + 1]>>

Take(s, k) == SubSeq(s, 1, IF Len(s) < k THEN Len(s) ELSE k)

\* snprintf(buf, size, "<prefix>%d", n): at most size - 1 characters are kept.
Snprintf(size, prefix, n) == Take(prefix \o Digits(n), size - 1)

LightPrefix == <<"L", "i", "g", "h", "t", ":", " ">>
SmaPrefix == <<"S", "M", "A", ":", " ">>

EmptyMsg == [line1 |-> <<>>, line2 |-> <<>>]

\* SumHistory with the loop bound one short (i < 4): the last slot is left out.
RECURSIVE SumHistoryShort(_, _)
SumHistoryShort(h, i) ==
  IF i >= WindowSize - 1 THEN 0 ELSE h[i] + SumHistoryShort(h, i + 1)

\* sum of the five slots of the history buffer (lines 94-97)
RECURSIVE SumHistory(_, _)
SumHistory(h, i) == IF i >= WindowSize THEN 0 ELSE h[i] + SumHistory(h, i + 1)

\* A give that counts every raise, as a counting semaphore would.
SemaphoreGiveCounting(s) == s + 1

\* A give that raises nothing.
SemaphoreGiveNone(s) == s

\* xSemaphoreGive on a binary semaphore: a give on a full semaphore fails and
\* leaves it full.
SemaphoreGive(s) == IF s = 1 THEN 1 ELSE s + 1

\* A send that puts the item at the front (xQueueSendToFront).
QueueSendToFront(q, m) == <<m>> \o q

\* xQueueSend copies the item to the back of the queue.
QueueSend(q, m) == Append(q, m)

\* Trial division that stops one divisor early (i * i < num).
RECURSIVE TrialDivisionShort(_, _)
TrialDivisionShort(n, i) ==
  IF i * i >= n THEN TRUE
  ELSE IF n % i = 0 THEN FALSE
  ELSE TrialDivisionShort(n, i + 1)

\* the trial division of lines 161-167
RECURSIVE TrialDivision(_, _)
TrialDivision(n, i) ==
  IF i * i > n THEN TRUE
  ELSE IF n % i = 0 THEN FALSE
  ELSE TrialDivision(n, i + 1)

\* The high test with >= for >: the interval read as [low, high).
AboveHighInclusive(v) == v >= HighThreshold

\* The thresholds with a digit dropped or added.
AboveHighTypo(v) == v > 380
BelowLowTypo(v) == v < 3000

\* the condition of line 140, one operand at a time
AboveHigh(v) == v > HighThreshold
BelowLow(v) == v < LowThreshold

Alive(t) == tasks[t] = "alive"

\* the entries of episodeLog: a digitalWrite of a level, a vTaskDelay of ms
WriteEvent(level) == [kind |-> "write", level |-> level, ms |-> 0]
DelayEvent(ms) == [kind |-> "delay", level |-> "", ms |-> ms]

NoWake == [sent |-> FALSE, raw |-> -1, sma |-> -1, torn |-> FALSE]

\* -------------------------------------------------------------- Init

SensorProfiles == {{0, 1}, {1000, 4000}, {LowThreshold, HighThreshold}, {AdcMax}}

InitWith(cap, profiles, limits) ==
  /\ setupPc = "alloc"
  /\ allocated = [display |-> FALSE, alarm |-> FALSE, queue |-> FALSE]
  /\ tasks = [t \in {TaskNames[k] : k \in 1..Len(TaskNames)} |-> "absent"]
  /\ displaySemaphore = 0
  /\ alarmSemaphore = 0
  /\ lcdQueue = <<>>
  /\ lightLevel = 0
  /\ smaValue = 0
  /\ lightHistory = [i \in 0..(WindowSize - 1) |-> 0]
  /\ historyIndex = 0
  /\ sPc = "read"
  /\ sum = 0
  /\ dPc = "take"
  /\ lastLight = -1
  /\ lastSMA = -1
  /\ msg = EmptyMsg
  /\ rPc = "recv"
  /\ rMsg = EmptyMsg
  /\ lcd = EmptyMsg
  /\ aPc = "take"
  /\ aI = 0
  /\ led = "LOW"
  /\ pPc = "loop"
  /\ num = 2
  /\ sensor \in profiles
  /\ cycleCap = cap
  /\ primeLimit \in limits
  /\ rawLog = <<>>
  /\ sentLog = <<>>
  /\ renderedLog = <<>>
  /\ emitted = <<>>
  /\ yields = 0
  /\ episodeLog = <<>>
  /\ ledWrites = 0
  /\ aRead = -1
  /\ aTrig = -1
  /\ dRaised = 0
  /\ dCoalesced = 0
  /\ wake = NoWake
  /\ prevWake = NoWake

\* ------------------------------------------------------------- setup

\* lines 188-190: the three allocations, each of which may fail
SetupAlloc ==
  /\ setupPc = "alloc"
  /\ \E d \in BOOLEAN, a \in BOOLEAN, q \in BOOLEAN :
       allocated' = [display |-> d, alarm |-> a, queue |-> q]
  /\ setupPc' = "check"
  /\ UNCHANGED <<tasks, syncVars, sharedVars, samplerVars, displayVars, lcdVars,
                 alarmVars, primeVars, envVars, dRaised>>

\* SetupCheck with && for ||: it halts only when all three handles are NULL.
SetupCheckAll ==
  /\ setupPc = "check"
  /\ setupPc' = IF ~allocated.queue /\ ~allocated.display /\ ~allocated.alarm
                THEN "halt" ELSE "create"
  /\ UNCHANGED <<allocated, tasks, syncVars, sharedVars, samplerVars, displayVars,
                 lcdVars, alarmVars, primeVars, envVars, dRaised>>

\* lines 191-194: halt in while(1) when a handle is NULL
SetupCheck ==
  /\ setupPc = "check"
  /\ setupPc' = IF ~allocated.queue \/ ~allocated.display \/ ~allocated.alarm
                THEN "halt" ELSE "create"
  /\ UNCHANGED <<allocated, tasks, syncVars, sharedVars, samplerVars, displayVars,
                 lcdVars, alarmVars, primeVars, envVars, dRaised>>

\* lines 196-200: one xTaskCreatePinnedToCore per step, in source order
SetupCreate ==
  /\ setupPc = "create"
  /\ LET n == Cardinality({t \in DOMAIN tasks : tasks[t] # "absent"})
     IN /\ tasks' = [tasks EXCEPT ![TaskNames[n + 1]] = "alive"]
        /\ setupPc' = IF n + 1 = Len(TaskNames) THEN "done" ELSE "create"
  /\ UNCHANGED <<allocated, syncVars, sharedVars, samplerVars, displayVars, lcdVars,
                 alarmVars, primeVars, envVars, dRaised>>

Setup == SetupAlloc \/ SetupCheck \/ SetupCreate

\* ------------------------------------------- lightDetectorTask (Sampler)

\* The index advanced without the modulo of line 92.
SamplerReadNoWrap ==
  /\ Alive("LightDetector")
  /\ sPc = "read"
  /\ Len(rawLog) < cycleCap
  /\ \E val \in sensor :
       /\ lightLevel' = val
       /\ lightHistory' = [lightHistory EXCEPT ![historyIndex] = val]
       /\ historyIndex' = historyIndex + 1
       /\ sum' = SumHistory(lightHistory', 0)
       /\ rawLog' = Append(rawLog, val)
  /\ sPc' = "sma"
  /\ UNCHANGED <<setupVars, syncVars, smaValue, displayVars, lcdVars, alarmVars,
                 primeVars, envVars, dRaised>>

\* lines 105 (the delay has elapsed) and 89-97: read the sensor, store the raw
\* value, put it in the history buffer, advance the index, sum the buffer
SamplerRead ==
  /\ Alive("LightDetector")
  /\ sPc = "read"
  /\ Len(rawLog) < cycleCap
  /\ \E val \in sensor :
       /\ lightLevel' = val
       /\ lightHistory' = [lightHistory EXCEPT ![historyIndex] = val]
       /\ historyIndex' = (historyIndex + 1) % WindowSize
       /\ sum' = SumHistory(lightHistory', 0)
       /\ rawLog' = Append(rawLog, val)
  /\ sPc' = "sma"
  /\ UNCHANGED <<setupVars, syncVars, smaValue, displayVars, lcdVars, alarmVars,
                 primeVars, envVars, dRaised>>

\* line 98
SamplerPublish ==
  /\ Alive("LightDetector")
  /\ sPc = "sma"
  /\ smaValue' = sum \div WindowSize
  /\ sPc' = "giveD"
  /\ UNCHANGED <<setupVars, syncVars, lightLevel, lightHistory, historyIndex, sum,
                 rawLog, displayVars, lcdVars, alarmVars, primeVars, envVars,
                 dRaised>>

\* A give that waits until the consumer has taken the wake before.
SamplerGiveDisplayWaiting ==
  /\ Alive("LightDetector")
  /\ sPc = "giveD"
  /\ displaySemaphore = 0
  /\ displaySemaphore' = 1
  /\ dRaised' = dRaised + 1
  /\ sPc' = "giveA"
  /\ UNCHANGED <<setupVars, alarmSemaphore, lcdQueue, sharedVars, sum, rawLog,
                 displayVars, lcdVars, alarmVars, primeVars, envVars>>

\* line 102
SamplerGiveDisplay ==
  /\ Alive("LightDetector")
  /\ sPc = "giveD"
  /\ displaySemaphore' = SemaphoreGive(displaySemaphore)
  /\ dRaised' = dRaised + 1
  /\ sPc' = "giveA"
  /\ UNCHANGED <<setupVars, alarmSemaphore, lcdQueue, sharedVars, sum, rawLog,
                 displayVars, lcdVars, alarmVars, primeVars, envVars>>

\* lines 103-105: give, then block in vTaskDelay(200 ms)
SamplerGiveAlarm ==
  /\ Alive("LightDetector")
  /\ sPc = "giveA"
  /\ alarmSemaphore' = SemaphoreGive(alarmSemaphore)
  /\ sPc' = "read"
  /\ UNCHANGED <<setupVars, displaySemaphore, lcdQueue, sharedVars, sum, rawLog,
                 displayVars, lcdVars, alarmVars, primeVars, envVars, dRaised>>

Sampler == SamplerRead \/ SamplerPublish \/ SamplerGiveDisplay \/ SamplerGiveAlarm

\* ---------------------------------------- lightDisplayTask (DisplayComposer)

\* line 118: xSemaphoreTake(displaySemaphore, portMAX_DELAY)
DisplayTake ==
  /\ Alive("LightDisplay")
  /\ dPc = "take"
  /\ displaySemaphore = 1
  /\ displaySemaphore' = 0
  /\ dCoalesced' = dRaised
  /\ dRaised' = 0
  /\ prevWake' = wake
  /\ wake' = NoWake
  /\ dPc' = "cmpL"
  /\ UNCHANGED <<setupVars, alarmSemaphore, lcdQueue, sharedVars, samplerVars,
                 lastLight, lastSMA, msg, sentLog, lcdVars, alarmVars, primeVars,
                 envVars>>

\* line 119, left operand of ||
DisplayCmpLight ==
  /\ Alive("LightDisplay")
  /\ dPc = "cmpL"
  /\ wake' = [wake EXCEPT !.raw = lightLevel]
  /\ dPc' = IF lightLevel # lastLight THEN "fmt1" ELSE "cmpS"
  /\ UNCHANGED <<setupVars, syncVars, sharedVars, samplerVars, lastLight, lastSMA,
                 msg, sentLog, dCoalesced, prevWake, lcdVars, alarmVars, primeVars,
                 envVars, dRaised>>

\* line 119, right operand of ||, evaluated only when the left one is false
DisplayCmpSMA ==
  /\ Alive("LightDisplay")
  /\ dPc = "cmpS"
  /\ wake' = [wake EXCEPT !.sma = smaValue]
  /\ dPc' = IF smaValue # lastSMA THEN "fmt1" ELSE "take"
  /\ UNCHANGED <<setupVars, syncVars, sharedVars, samplerVars, lastLight, lastSMA,
                 msg, sentLog, dCoalesced, prevWake, lcdVars, alarmVars, primeVars,
                 envVars, dRaised>>

\* line 120
DisplayFormatLight ==
  /\ Alive("LightDisplay")
  /\ dPc = "fmt1"
  /\ msg' = [msg EXCEPT !.line1 = Snprintf(LineSize, LightPrefix, lightLevel)]
  /\ wake' = [wake EXCEPT !.raw = lightLevel,
                          !.torn = @ \/ wake.raw # lightLevel]
  /\ dPc' = "fmt2"
  /\ UNCHANGED <<setupVars, syncVars, sharedVars, samplerVars, lastLight, lastSMA,
                 sentLog, dCoalesced, prevWake, lcdVars, alarmVars, primeVars,
                 envVars, dRaised>>

\* line 121
DisplayFormatSMA ==
  /\ Alive("LightDisplay")
  /\ dPc = "fmt2"
  /\ msg' = [msg EXCEPT !.line2 = Snprintf(LineSize, SmaPrefix, smaValue)]
  /\ wake' = [wake EXCEPT !.sma = smaValue,
                          !.torn = @ \/ (wake.sma # -1 /\ wake.sma # smaValue)]
  /\ dPc' = "send"
  /\ UNCHANGED <<setupVars, syncVars, sharedVars, samplerVars, lastLight, lastSMA,
                 sentLog, dCoalesced, prevWake, lcdVars, alarmVars, primeVars,
                 envVars, dRaised>>

\* A send that never waits: on a full queue the oldest item is dropped.
DisplaySendDropOldest ==
  /\ Alive("LightDisplay")
  /\ dPc = "send"
  /\ lcdQueue' = IF Len(lcdQueue) < QueueLength
                 THEN QueueSend(lcdQueue, msg)
                 ELSE QueueSend(Tail(lcdQueue), msg)
  /\ sentLog' = Append(sentLog, msg)
  /\ wake' = [wake EXCEPT !.sent = TRUE]
  /\ dPc' = "updL"
  /\ UNCHANGED <<setupVars, displaySemaphore, alarmSemaphore, sharedVars,
                 samplerVars, lastLight, lastSMA, msg, dCoalesced, prevWake,
                 lcdVars, alarmVars, primeVars, envVars, dRaised>>

\* line 123: xQueueSend(lcdQueue, &msg, portMAX_DELAY) blocks while the queue
\* is full
DisplaySend ==
  /\ Alive("LightDisplay")
  /\ dPc = "send"
  /\ Len(lcdQueue) < QueueLength
  /\ lcdQueue' = QueueSend(lcdQueue, msg)
  /\ sentLog' = Append(sentLog, msg)
  /\ wake' = [wake EXCEPT !.sent = TRUE]
  /\ dPc' = "updL"
  /\ UNCHANGED <<setupVars, displaySemaphore, alarmSemaphore, sharedVars,
                 samplerVars, lastLight, lastSMA, msg, dCoalesced, prevWake,
                 lcdVars, alarmVars, primeVars, envVars, dRaised>>

\* line 124
DisplayUpdateLight ==
  /\ Alive("LightDisplay")
  /\ dPc = "updL"
  /\ lastLight' = lightLevel
  /\ dPc' = "updS"
  /\ UNCHANGED <<setupVars, syncVars, sharedVars, samplerVars, lastSMA, msg,
                 sentLog, dCoalesced, wake, prevWake, lcdVars, alarmVars,
                 primeVars, envVars, dRaised>>

\* line 125
DisplayUpdateSMA ==
  /\ Alive("LightDisplay")
  /\ dPc = "updS"
  /\ lastSMA' = smaValue
  /\ dPc' = "take"
  /\ UNCHANGED <<setupVars, syncVars, sharedVars, samplerVars, lastLight, msg,
                 sentLog, dCoalesced, wake, prevWake, lcdVars, alarmVars,
                 primeVars, envVars, dRaised>>

Display ==
  \/ DisplayTake \/ DisplayCmpLight \/ DisplayCmpSMA \/ DisplayFormatLight
  \/ DisplayFormatSMA \/ DisplaySend \/ DisplayUpdateLight \/ DisplayUpdateSMA

\* ------------------------------------------------------ lcdTask (Renderer)

\* A receive that leaves the item in the queue (xQueuePeek).
LcdReceivePeek ==
  /\ Alive("LCD")
  /\ rPc = "recv"
  /\ lcdQueue # <<>>
  /\ rMsg' = Head(lcdQueue)
  /\ rPc' = "print"
  /\ UNCHANGED <<setupVars, syncVars, sharedVars,
                 samplerVars, displayVars, lcd, renderedLog, alarmVars, primeVars,
                 envVars, dRaised>>

\* line 71: xQueueReceive(lcdQueue, &msg, portMAX_DELAY) blocks while the
\* queue is empty and takes the item at the front
LcdReceive ==
  /\ Alive("LCD")
  /\ rPc = "recv"
  /\ lcdQueue # <<>>
  /\ rMsg' = Head(lcdQueue)
  /\ lcdQueue' = Tail(lcdQueue)
  /\ rPc' = "print"
  /\ UNCHANGED <<setupVars, displaySemaphore, alarmSemaphore, sharedVars,
                 samplerVars, displayVars, lcd, renderedLog, alarmVars, primeVars,
                 envVars, dRaised>>

\* lines 72-77: clear the display, print both lines
LcdPrint ==
  /\ Alive("LCD")
  /\ rPc = "print"
  /\ lcd' = rMsg
  /\ renderedLog' = Append(renderedLog, rMsg)
  /\ rPc' = "recv"
  /\ UNCHANGED <<setupVars, syncVars, sharedVars, samplerVars, displayVars, rMsg,
                 alarmVars, primeVars, envVars, dRaised>>

Lcd == LcdReceive \/ LcdPrint

\* -------------------------------------------------- alarmTask (AlarmMonitor)

\* line 138: xSemaphoreTake(alarmSemaphore, portMAX_DELAY)
AlarmTake ==
  /\ Alive("Alarm")
  /\ aPc = "take"
  /\ alarmSemaphore = 1
  /\ alarmSemaphore' = 0
  /\ aPc' = "chkHi"
  /\ UNCHANGED <<setupVars, displaySemaphore, lcdQueue, sharedVars, samplerVars,
                 displayVars, lcdVars, aI, led, episodeLog, ledWrites, aRead,
                 aTrig, primeVars, envVars, dRaised>>

\* line 140, left operand of ||; line 142 sets i = 0 when the episode starts
AlarmCheckHigh ==
  /\ Alive("Alarm")
  /\ aPc = "chkHi"
  /\ aRead' = smaValue
  /\ IF AboveHigh(smaValue)
     THEN /\ aPc' = "high"
          /\ aI' = 0
          /\ aTrig' = smaValue
          /\ episodeLog' = <<>>
     ELSE /\ aPc' = "chkLo"
          /\ UNCHANGED <<aI, aTrig, episodeLog>>
  /\ UNCHANGED <<setupVars, syncVars, sharedVars, samplerVars, displayVars,
                 lcdVars, led, ledWrites, primeVars, envVars, dRaised>>

\* line 140, right operand of ||, evaluated only when the left one is false
AlarmCheckLow ==
  /\ Alive("Alarm")
  /\ aPc = "chkLo"
  /\ aRead' = smaValue
  /\ IF BelowLow(smaValue)
     THEN /\ aPc' = "high"
          /\ aI' = 0
          /\ aTrig' = smaValue
          /\ episodeLog' = <<>>
     ELSE /\ aPc' = "take"
          /\ UNCHANGED <<aI, aTrig, episodeLog>>
  /\ UNCHANGED <<setupVars, syncVars, sharedVars, samplerVars, displayVars,
                 lcdVars, led, ledWrites, primeVars, envVars, dRaised>>

\* line 143, then blocked in the delay of line 144
AlarmHigh ==
  /\ Alive("Alarm")
  /\ aPc = "high"
  /\ led' = "HIGH"
  /\ ledWrites' = ledWrites + 1
  /\ episodeLog' = Append(episodeLog, WriteEvent("HIGH"))
  /\ aPc' = "dHigh"
  /\ UNCHANGED <<setupVars, syncVars, sharedVars, samplerVars, displayVars,
                 lcdVars, aI, aRead, aTrig, primeVars, envVars, dRaised>>

\* line 144: the delay elapses
AlarmDelayHigh ==
  /\ Alive("Alarm")
  /\ aPc = "dHigh"
  /\ episodeLog' = Append(episodeLog, DelayEvent(HalfPeriodMs))
  /\ aPc' = "low"
  /\ UNCHANGED <<setupVars, syncVars, sharedVars, samplerVars, displayVars,
                 lcdVars, aI, led, ledWrites, aRead, aTrig, primeVars, envVars,
                 dRaised>>

\* line 145, then blocked in the delay of line 146
AlarmLow ==
  /\ Alive("Alarm")
  /\ aPc = "low"
  /\ led' = "LOW"
  /\ ledWrites' = ledWrites + 1
  /\ episodeLog' = Append(episodeLog, WriteEvent("LOW"))
  /\ aPc' = "dLow"
  /\ UNCHANGED <<setupVars, syncVars, sharedVars, samplerVars, displayVars,
                 lcdVars, aI, aRead, aTrig, primeVars, envVars, dRaised>>

\* AlarmDelayLow with the loop test off by one (i <= 3).
AlarmDelayLowOffByOne ==
  /\ Alive("Alarm")
  /\ aPc = "dLow"
  /\ episodeLog' = Append(episodeLog, DelayEvent(HalfPeriodMs))
  /\ aI' = aI + 1
  /\ aPc' = IF aI + 1 <= FlashCount THEN "high" ELSE "cool"
  /\ UNCHANGED <<setupVars, syncVars, sharedVars, samplerVars, displayVars,
                 lcdVars, led, ledWrites, aRead, aTrig, primeVars, envVars,
                 dRaised>>

\* line 146: the delay elapses; line 142: i++ and the loop test; when the loop
\* ends the task is blocked in the delay of line 148
AlarmDelayLow ==
  /\ Alive("Alarm")
  /\ aPc = "dLow"
  /\ episodeLog' = Append(episodeLog, DelayEvent(HalfPeriodMs))
  /\ aI' = aI + 1
  /\ aPc' = IF aI + 1 < FlashCount THEN "high" ELSE "cool"
  /\ UNCHANGED <<setupVars, syncVars, sharedVars, samplerVars, displayVars,
                 lcdVars, led, ledWrites, aRead, aTrig, primeVars, envVars,
                 dRaised>>

\* A cool-down that waits on the semaphore with a timeout instead of delaying,
\* and so swallows a wake raised during the episode.
AlarmCoolDownTake ==
  /\ Alive("Alarm")
  /\ aPc = "cool"
  /\ alarmSemaphore' = 0
  /\ episodeLog' = Append(episodeLog, DelayEvent(CoolDownMs))
  /\ aPc' = "take"
  /\ UNCHANGED <<setupVars, displaySemaphore, lcdQueue, sharedVars, samplerVars,
                 displayVars, lcdVars, aI, led, ledWrites, aRead, aTrig, primeVars,
                 envVars, dRaised>>

\* line 148: the cool-down delay elapses
AlarmCoolDown ==
  /\ Alive("Alarm")
  /\ aPc = "cool"
  /\ episodeLog' = Append(episodeLog, DelayEvent(CoolDownMs))
  /\ aPc' = "take"
  /\ UNCHANGED <<setupVars, syncVars, sharedVars, samplerVars, displayVars,
                 lcdVars, aI, led, ledWrites, aRead, aTrig, primeVars, envVars,
                 dRaised>>

Alarm ==
  \/ AlarmTake \/ AlarmCheckHigh \/ AlarmCheckLow \/ AlarmHigh \/ AlarmDelayHigh
  \/ AlarmLow \/ AlarmDelayLow \/ AlarmCoolDown

\* ---------------------------------------------- primeTask (BackgroundCompute)

\* lines 160-171: one iteration of the outer loop; a prime is printed and the
\* task blocks in vTaskDelay(10 ms)
PrimeIterate ==
  /\ Alive("Prime")
  /\ pPc = "loop"
  /\ num <= primeLimit
  /\ IF TrialDivision(num, 2)
     THEN /\ emitted' = Append(emitted, num)
          /\ yields' = yields + 1
          /\ pPc' = "yield"
          /\ num' = num
     ELSE /\ num' = num + 1
          /\ UNCHANGED <<emitted, yields, pPc>>
  /\ UNCHANGED <<setupVars, syncVars, sharedVars, samplerVars, displayVars,
                 lcdVars, alarmVars, envVars, dRaised>>

\* line 170: the delay elapses; line 160: num++
PrimeResume ==
  /\ Alive("Prime")
  /\ pPc = "yield"
  /\ num' = num + 1
  /\ pPc' = "loop"
  /\ UNCHANGED <<setupVars, syncVars, sharedVars, samplerVars, displayVars,
                 lcdVars, alarmVars, emitted, yields, envVars, dRaised>>

\* lines 173-174: the loop has ended; vTaskDelete(NULL)
PrimeDelete ==
  /\ Alive("Prime")
  /\ pPc = "loop"
  /\ num > primeLimit
  /\ pPc' = "deleted"
  /\ tasks' = [tasks EXCEPT !["Prime"] = "deleted"]
  /\ UNCHANGED <<setupPc, allocated, syncVars, sharedVars, samplerVars,
                 displayVars, lcdVars, alarmVars, num, emitted, yields, envVars,
                 dRaised>>

Prime == PrimeIterate \/ PrimeResume \/ PrimeDelete

\* ---------------------------------------------------- specifications

\* The whole program: setup and the five tasks.
Init == InitWith(MaxCyclesAll, {{1000}}, {MaxSmallRange})

Next == Setup \/ Sampler \/ Display \/ Lcd \/ Alarm \/ Prime

Spec == Init /\ [][Next]_vars

\* The whole program under the scheduler's fairness: every task that is ready
\* eventually runs (time slicing among tasks of equal priority on a core; a
\* task of higher priority blocks in a delay or a wait after a bounded amount
\* of work).
FairSpec ==
  /\ Spec
  /\ WF_vars(Setup) /\ WF_vars(Sampler) /\ WF_vars(Display) /\ WF_vars(Lcd)
  /\ WF_vars(Alarm) /\ WF_vars(Prime)

\* The whole program with the one part of that fairness BackgroundCompute
\* needs: primeTask, whenever it is ready, eventually runs.
SpecFairPrime == Spec /\ WF_vars(Prime)

\* Setup, Sampler, DisplayComposer and Renderer.  AlarmMonitor and
\* BackgroundCompute write nothing these tasks read, so leaving their steps
\* out removes no behaviour of the variables of these tasks.
InitDisplay == InitWith(MaxCyclesDisplay, {{0, 1}, {1000, 4000}}, {MaxSmallRange})

NextDisplay == Setup \/ Sampler \/ Display \/ Lcd

SpecDisplay == InitDisplay /\ [][NextDisplay]_vars

\* Setup, Sampler and AlarmMonitor.
InitAlarm == InitWith(MaxCycles, SensorProfiles, {MaxSmallRange})

NextAlarm == Setup \/ Sampler \/ Alarm

SpecAlarm == InitAlarm /\ [][NextAlarm]_vars

\* Setup and BackgroundCompute, over every small range and the program's.
InitPrime == InitWith(MaxCyclesAll, {{1000, 4000}}, (2..MaxSmallRange) \cup {PrimeLimit})

NextPrime == Setup \/ Prime

SpecPrime == InitPrime /\ [][NextPrime]_vars /\ WF_vars(Setup) /\ WF_vars(Prime)

\* =============================================================== claims

\* the decimal number a sequence of digit characters denotes
DigitValue(c) == CHOOSE d \in 0..9 : DigitChars[d + 1] = c

RECURSIVE ParseDigits(_)
ParseDigits(cs) ==
  IF cs = <<>> THEN 0
  ELSE 10 * ParseDigits(SubSeq(cs, 1, Len(cs) - 1)) + DigitValue(cs[Len(cs)])

\* the number a display line shows after its label
LineValue(line, prefix) == ParseDigits(SubSeq(line, Len(prefix) + 1, Len(line)))

MsgRaw(m) == LineValue(m.line1, LightPrefix)
MsgSma(m) == LineValue(m.line2, SmaPrefix)

\* the sum of the (at most five) samples log[n-4 .. n]
RECURSIVE SumRange(_, _, _)
SumRange(log, lo, hi) == IF lo > hi THEN 0 ELSE log[lo] + SumRange(log, lo + 1, hi)

LastFive(log, n) == SumRange(log, IF n > 5 THEN n - 4 ELSE 1, n)

\* the (raw, smoothed) pair cycle k publishes, as the specification defines it
PublishedPair(k) == <<rawLog[k], LastFive(rawLog, k) \div 5>>

PublishedPairs == {PublishedPair(k) : k \in 1..Len(rawLog)}

\* C1: the (raw, smoothed) pair DisplayComposer formats into a message on a
\* wake is the pair of one single Sampler cycle.  (The statement of the claim;
\* the code violates it.)
C1_MessagePairFromOneCycle ==
  dPc = "send" => <<MsgRaw(msg), MsgSma(msg)>> \in PublishedPairs

\* C2: after n cycles the published smoothed value is the floor of (the sum of
\* the 5 most recent raw samples, or of all n samples when n < 5) divided by 5.
\* While a cycle has stored its raw value and not yet its mean, smaValue is
\* still the mean of the cycle before.
C2_SmoothedIsMeanOfLastFive ==
  LET n == Len(rawLog)
      published == IF sPc = "sma" THEN n - 1 ELSE n
  IN smaValue = LastFive(rawLog, published) \div 5

\* six cycles whose first sample has left the window and whose mean rounds down
C2_Witness ==
  /\ rawLog = <<1, 1, 1, 1, 1, 0>>
  /\ sPc = "giveD"
  /\ smaValue = 0

\* C3: DisplayComposer sends no message on a wake on which it reads the very
\* (raw, smoothed) pair of the wake before.  A wake's pair is what its reads of
\* lines 119-121 returned; wakes whose reads disagree among themselves are left
\* out.  (The statement of the claim; the code violates it.)
C3_NoSendOnIdenticalWake ==
  ~ /\ wake.sent
    /\ ~wake.torn /\ ~prevWake.torn
    /\ prevWake.raw = wake.raw
    /\ prevWake.sma = wake.sma

\* a step that writes the LED pin
LedWrite == ledWrites' # ledWrites

\* C4: AlarmMonitor performs no write to the output while the smoothed value
\* currently in smaValue is in range (300 <= smaValue <= 3800), the writes of
\* a running episode included.  (The statement of the claim; it fails.)
C4_NoWriteWhileInRange ==
  [][LedWrite => ~(300 <= smaValue /\ smaValue <= 3800)]_vars

\* C4 as amended: every write to the output is part of an episode that
\* started on a wake on which the smoothed value AlarmMonitor read was out of
\* range (< 300 or > 3800), whatever smaValue is by the time of the write.
C4_WriteOnlyInEpisodeOfOutOfRangeRead ==
  [][LedWrite => /\ aPc \in {"high", "low"}
                 /\ (aTrig < 300 \/ aTrig > 3800)
                 /\ Len(episodeLog') <= 4 * FlashCount]_vars

\* a write of a running episode made while smaValue is back in range
C4_Witness ==
  /\ aPc = "dHigh"
  /\ led = "HIGH"
  /\ aI = 1
  /\ 300 <= smaValue /\ smaValue <= 3800
  /\ aTrig < 300

\* whether p is a prefix of s
IsPrefix(p, s) == Len(p) <= Len(s) /\ p = SubSeq(s, 1, Len(p))

\* C5: Renderer renders the messages in the order DisplayComposer sent them:
\* what has been rendered is an initial part of what has been sent.
C5_RenderedInSendOrder == IsPrefix(renderedLog, sentLog)

\* two different messages rendered, two messages having been in the queue at once
C5_Witness ==
  /\ Len(renderedLog) >= 2
  /\ renderedLog[1] # renderedLog[2]
  /\ Len(lcdQueue) >= 1

\* C6: a wake signal holds at most one pending wake: however many times the
\* display signal was raised since DisplayComposer last took it, one wake is
\* pending, and none once it is taken until the next raise.
C6_RaisesCoalesce ==
  /\ displaySemaphore \in {0, 1}
  /\ alarmSemaphore \in {0, 1}
  /\ displaySemaphore = (IF dRaised > 0 THEN 1 ELSE 0)

\* DisplayComposer has just taken a wake that stands for two raises or more
C6_Witness ==
  /\ dPc = "cmpL"
  /\ dCoalesced >= 2
  /\ displaySemaphore = 0

\* the output sequence of one alarm episode, delays in milliseconds
ExpectedEpisode ==
  << WriteEvent("HIGH"), DelayEvent(250), WriteEvent("LOW"), DelayEvent(250),
     WriteEvent("HIGH"), DelayEvent(250), WriteEvent("LOW"), DelayEvent(250),
     WriteEvent("HIGH"), DelayEvent(250), WriteEvent("LOW"), DelayEvent(250),
     DelayEvent(2000) >>

AlarmIdle == aPc \in {"take", "chkHi", "chkLo"}

\* C7: an episode starts on a read of an out-of-range smoothed value; it
\* writes HIGH, LOW, HIGH, LOW, HIGH, LOW with a 250 ms delay after each write,
\* then waits 2000 ms with the output LOW; AlarmMonitor is never stuck inside
\* it and is back in Idle only after exactly that sequence.
C7_EpisodeSequence ==
  /\ IsPrefix(episodeLog, ExpectedEpisode)
  /\ AlarmIdle => episodeLog \in {<<>>, ExpectedEpisode}
  /\ ~AlarmIdle => Len(episodeLog) < Len(ExpectedEpisode)
  /\ aPc = "cool" => led = "LOW" /\ Len(episodeLog) = Len(ExpectedEpisode) - 1
  /\ aPc = "dHigh" => led = "HIGH"
  /\ aPc = "dLow" => led = "LOW"
  /\ ~AlarmIdle => aTrig = aRead /\ (aTrig > 3800 \/ aTrig < 300)
  /\ ~AlarmIdle => ENABLED Alarm

\* five samples of 4000, the episode of the read of 4000 complete
C7_Witness ==
  /\ rawLog = <<4000, 4000, 4000, 4000, 4000>>
  /\ aTrig = 4000
  /\ aPc = "take"
  /\ led = "LOW"
  /\ episodeLog = ExpectedEpisode

\* the run of the scenario: every sample so far is 1000, five at most
ThousandRun == Len(rawLog) <= 5 /\ \A k \in 1..Len(rawLog) : rawLog[k] = 1000

\* C8: in a run of samples 1000, 1000, 1000, 1000, 1000 from the all-zero
\* window AlarmMonitor starts no episode and never writes the output.  (The
\* statement of the claim; it fails on the first cycle's mean, 200.)
C8_NoEpisodeInThousandRun ==
  ThousandRun => AlarmIdle /\ ledWrites = 0

\* C8 as amended: in that run AlarmMonitor starts no episode and writes
\* nothing on a wake on which it reads a mean of the second cycle or later
\* (400, 600, 800, 1000); an episode starts only on a read of the first
\* cycle's mean 200, and the output is written only in such an episode.
C8_EpisodeOnlyOnStartupMean ==
  ThousandRun =>
    /\ (~AlarmIdle \/ ledWrites > 0) => aTrig = 200
    /\ (aPc = "take" /\ aRead >= 400) => aTrig \in {-1, 200}
    /\ (aPc = "high" /\ episodeLog = <<>>) => aRead = 200

\* the window holds five samples of 1000 and the wake that read the mean 1000
\* has ended without an episode
C8_Witness ==
  /\ rawLog = <<1000, 1000, 1000, 1000, 1000>>
  /\ smaValue = 1000
  /\ aRead = 1000
  /\ aPc = "take"
  /\ alarmSemaphore = 0

\* the primes of lo..hi in increasing order, by definition of a prime
IsPrime(k) == k >= 2 /\ \A d \in 2..(k - 1) : k % d # 0

RECURSIVE PrimesIn(_, _)
PrimesIn(lo, hi) ==
  IF lo > hi THEN <<>>
  ELSE (IF IsPrime(lo) THEN <<lo>> ELSE <<>>) \o PrimesIn(lo + 1, hi)

\* what primeTask has emitted is the primes of the part of the range it has
\* gone through; it blocks in a delay right after each prime and only then
C9_Safety ==
  /\ pPc = "loop" => emitted = PrimesIn(2, num - 1)
  /\ pPc = "yield" => IsPrime(num) /\ emitted = PrimesIn(2, num)
  /\ pPc = "deleted" => emitted = PrimesIn(2, primeLimit)
  /\ yields = Len(emitted)
  /\ tasks["Prime"] = "deleted" <=> pPc = "deleted"
  /\ \A t \in DOMAIN tasks : t # "Prime" => tasks[t] # "deleted"

\* how far primeTask has got: every step of it raises this number
PrimeProgress ==
  2 * num + (IF pPc = "yield" THEN 1 ELSE 0) + (IF pPc = "deleted" THEN 2 ELSE 0)

\* C9: primeTask emits exactly the primes of [2, N], each once, in increasing
\* order, blocks in a delay after each, then deletes itself for good; no other
\* task is ever deleted.  It always reaches its deletion under fair scheduling:
\* until then it is never blocked for good (a step of it is always possible)
\* and each step brings it nearer, PrimeProgress being bounded.
C9_PrimesThenTermination ==
  /\ []C9_Safety
  /\ [][pPc = "deleted" => pPc' = "deleted" /\ emitted' = emitted]_vars
  /\ [](Alive("Prime") => ENABLED Prime)
  /\ [](PrimeProgress <= 2 * primeLimit + 4)
  /\ [][(pPc' # pPc \/ num' # num) => PrimeProgress' > PrimeProgress]_vars

\* the same termination as a leads-to, for the specifications that state
\* primeTask's fairness
PrimeTerminates == Alive("Prime") ~> pPc = "deleted"

\* one iteration emits num exactly when num is a prime (checked on the
\* program's range [2, 5000] under SpecPrime, where PrimesIn is too deep)
PrimeStepEmitsIffPrime ==
  [][(pPc = "loop" /\ num <= primeLimit /\ (pPc' # pPc \/ num' # num)) =>
       IF IsPrime(num) THEN emitted' = Append(emitted, num) /\ pPc' = "yield"
       ELSE emitted' = emitted /\ num' = num + 1]_vars

\* the range [2, 10] done: 2, 3, 5, 7 emitted, the task deleted
C9_Witness ==
  /\ primeLimit = 10
  /\ pPc = "deleted"
  /\ emitted = <<2, 3, 5, 7>>
  /\ yields = 4

\* every task is where its code starts
TaskNeverRan ==
  /\ sPc = "read" /\ rawLog = <<>>
  /\ dPc = "take" /\ rPc = "recv" /\ aPc = "take"
  /\ pPc = "loop" /\ num = 2 /\ emitted = <<>>

\* C10: when one of the three allocations fails setup halts for good and no
\* task is created or runs; a task exists only when all three succeeded.
AllAllocated == allocated.display /\ allocated.alarm /\ allocated.queue

C10_NoPartialStartup ==
  /\ [](setupPc \notin {"alloc", "check"} =>
          IF AllAllocated THEN setupPc \in {"create", "done"} ELSE setupPc = "halt")
  /\ [](setupPc = "halt" =>
          /\ \A t \in DOMAIN tasks : tasks[t] = "absent"
          /\ TaskNeverRan)
  /\ []((\E t \in DOMAIN tasks : tasks[t] # "absent") => AllAllocated)
  /\ [][setupPc = "halt" => setupPc' = "halt"]_vars

\* only the queue failed to allocate: setup has halted
C10_Witness ==
  /\ setupPc = "halt"
  /\ allocated.display /\ allocated.alarm /\ ~allocated.queue

InRange(v) == 300 <= v /\ v <= 3800

\* the steps that end the test of line 140
TestHighStep == aPc = "chkHi" /\ aPc' # aPc
TestLowStep == aPc = "chkLo" /\ aPc' # aPc

\* C11: on each wake AlarmMonitor starts an episode if and only if the
\* smoothed value it reads is < 300 or > 3800: a wake that starts one has read
\* a value out of range, and a wake that starts none has read no value out of
\* range.  (The statement of the claim; the code, which reads smaValue once
\* per operand of ||, violates it.)
C11_EpisodeIffReadOutOfRange ==
  [][/\ (~AlarmIdle' /\ AlarmIdle) => ~InRange(aRead')
     /\ (TestLowStep /\ aPc' = "take") => InRange(aRead) /\ InRange(aRead')]_vars

CyclePublished ==
  /\ Len(rawLog) > 0
  /\ <<lightLevel, smaValue>> = PublishedPair(Len(rawLog))

\* C13: every Sampler cycle raises both wake signals, the display signal and
\* then the alarm signal, and raises them only after it has written both the
\* raw and the smoothed value of the cycle: a signal becomes pending by no
\* other step, and the cycle ends only through the two raises.
C13_RaisesBothAfterPublish ==
  [][/\ (sPc = "giveD" /\ sPc' # sPc)
          => displaySemaphore' = 1 /\ sPc' = "giveA" /\ CyclePublished
     /\ (sPc = "giveA" /\ sPc' # sPc)
          => alarmSemaphore' = 1 /\ sPc' = "read" /\ CyclePublished
     /\ (sPc' = "giveD" /\ sPc' # sPc) => sPc = "sma" /\ CyclePublished'
     /\ (sPc' = "read" /\ sPc' # sPc) => sPc = "giveA"
     /\ (rawLog' # rawLog) => sPc = "read" /\ sPc' = "sma"
     /\ (displaySemaphore' > displaySemaphore) => sPc = "giveD" /\ sPc' = "giveA"
     /\ (alarmSemaphore' > alarmSemaphore) => sPc = "giveA" /\ sPc' = "read"]_vars

\* the second cycle has raised both signals, each consumer having taken the
\* wake of the first
C13_Witness ==
  /\ sPc = "read"
  /\ Len(rawLog) = 2
  /\ CyclePublished
  /\ displaySemaphore = 1
  /\ alarmSemaphore = 1
  /\ dCoalesced = 1
  /\ aRead >= 0

\* ------------------------------------------------ the queue under load
\* Sampler, DisplayComposer and Renderer with a sensor whose every sample
\* differs from the one before (1, 0, 1, 0, ...), so that every wake finds a
\* change and the queue can fill while lcdTask does not run.

SamplerReadChanging == SamplerRead /\ lightLevel' # lightLevel

InitQueue == InitWith(MaxCyclesQueue, {{0, 1}}, {MaxSmallRange})

NextQueue ==
  \/ Setup
  \/ SamplerReadChanging \/ SamplerPublish \/ SamplerGiveDisplay \/ SamplerGiveAlarm
  \/ Display
  \/ Lcd

SpecQueue == InitQueue /\ [][NextQueue]_vars

QueueFull == Len(lcdQueue) = 5

\* C14: the channel never holds more than 5 messages.  When it holds 5, a
\* send of DisplayComposer blocks: it neither drops the message nor overwrites
\* a queued one, DisplayComposer stays at the send with its message, and the
\* only change of the channel is Renderer's dequeue of the oldest message,
\* after which the send can complete.
C14_BoundedQueueBlockingSend ==
  /\ [](Len(lcdQueue) <= 5)
  /\ []((dPc = "send" /\ QueueFull) => ~ENABLED Display)
  /\ []((dPc = "send" /\ ~QueueFull /\ Alive("LightDisplay")) => ENABLED DisplaySend)
  /\ [][QueueFull => \/ lcdQueue' = lcdQueue
                     \/ lcdQueue' = Tail(lcdQueue) /\ rMsg' = Head(lcdQueue)]_vars
  /\ [][(dPc = "send" /\ QueueFull)
          => dPc' = "send" /\ msg' = msg /\ sentLog' = sentLog]_vars
  /\ [][(dPc = "send" /\ dPc' # "send")
          => lcdQueue' = Append(lcdQueue, msg) /\ Len(lcdQueue') <= 5]_vars

\* five messages are queued and DisplayComposer is blocked sending a sixth
C14_Witness ==
  /\ QueueFull
  /\ dPc = "send"
  /\ Len(sentLog) = 5
  /\ Len(renderedLog) = 0
  /\ ~ENABLED DisplaySend

\* ------------------------------------------- the queue slice, scheduled fairly
\* Every task that can run is eventually run: the three tasks block in
\* vTaskDelay, xSemaphoreTake and xQueueReceive, so none starves another.

SamplerChanging ==
  SamplerReadChanging \/ SamplerPublish \/ SamplerGiveDisplay \/ SamplerGiveAlarm

InitFair == InitWith(MaxCyclesFair, {{0, 1}}, {MaxSmallRange})

FairSpecQueue ==
  /\ InitFair
  /\ [][NextQueue]_vars
  /\ WF_vars(Setup)
  /\ WF_vars(SamplerChanging)
  /\ WF_vars(Display)
  /\ WF_vars(Lcd)

\* the message lcdTask has received and not yet printed
InHand == IF rPc = "print" THEN <<rMsg>> ELSE <<>>

\* C15: every DisplayMessage sent is rendered exactly once: the messages sent
\* are, in order, those rendered, then the one Renderer holds, then those
\* queued, so none is lost or rendered twice; and under fair scheduling the
\* k-th message sent is eventually the k-th message rendered.
C15_SentRenderedExactlyOnce ==
  /\ [](sentLog = renderedLog \o InHand \o lcdQueue)
  /\ \A k \in 1..MaxCyclesFair :
       (Len(sentLog) >= k) ~> (Len(renderedLog) >= k /\ renderedLog[k] = sentLog[k])

\* three messages were sent and all three are rendered, the last one showing
C15_Witness ==
  /\ Len(sentLog) = 3
  /\ renderedLog = sentLog
  /\ lcdQueue = <<>>
  /\ rPc = "recv"
  /\ lcd = sentLog[3]

\* a step of lightDetectorTask that stores into the shared reading
SamplerWriteStep == sPc \in {"read", "sma"} /\ sPc' # sPc

C17_LastEqualsSent ==
  (dPc = "take" /\ wake.sent) => (lastLight = MsgRaw(msg) /\ lastSMA = MsgSma(msg))

\* C18: AlarmMonitor consumes no wake and evaluates nothing while it is in an
\* episode or its cool-down: the alarm signal is taken only at the take of the
\* Idle state.  The raises made in that window leave one wake pending, which
\* stays pending to the end of the window; back in Idle AlarmMonitor takes it,
\* evaluates the smoothed value current at that moment, and then has no wake
\* left until Sampler raises the signal again.
C18_OneWakeAfterEpisode ==
  /\ [](alarmSemaphore \in {0, 1})
  /\ [][(alarmSemaphore' < alarmSemaphore)
          => aPc = "take" /\ aPc' = "chkHi" /\ alarmSemaphore' = 0]_vars
  /\ [][(~AlarmIdle) => (alarmSemaphore' >= alarmSemaphore /\ aRead' = aRead)]_vars
  /\ [][(~AlarmIdle /\ AlarmIdle') => aPc = "cool" /\ aPc' = "take"]_vars
  /\ []((aPc = "take" /\ alarmSemaphore = 1 /\ Alive("Alarm")) => ENABLED AlarmTake)
  /\ []((aPc = "take" /\ alarmSemaphore = 0) => ~ENABLED Alarm)
  /\ [][(aPc = "chkHi" /\ aPc' # aPc) => aRead' = smaValue]_vars

\* the episode started on the mean 200 of the first cycle; the five later
\* cycles have all raised the signal since, and AlarmMonitor, back in Idle, has
\* taken the one pending wake, its first since the episode (it has evaluated
\* nothing since the 200), leaving none
C18_Witness ==
  /\ rawLog = <<1000, 1000, 1000, 1000, 1000, 1000>>
  /\ sPc = "read"
  /\ smaValue = 1000
  /\ aTrig = 200
  /\ aRead = 200
  /\ ledWrites = 6
  /\ episodeLog = ExpectedEpisode
  /\ aPc = "chkHi"
  /\ alarmSemaphore = 0

\* -------------------------------------------- a sensor that settles
\* After the cycles explored the sensor holds its last value and Sampler keeps
\* cycling: it stores the same raw value, keeps the window and the mean up to
\* date and raises both signals, as the task does for ever.  The number of
\* raises it can be ahead of DisplayComposer is capped to keep the count of
\* raises finite.

SamplerReadSteady ==
  /\ Alive("LightDetector")
  /\ sPc = "read"
  /\ Len(rawLog) = cycleCap
  /\ dRaised < MaxAhead
  /\ lightHistory' = [lightHistory EXCEPT ![historyIndex] = lightLevel]
  /\ historyIndex' = (historyIndex + 1) % WindowSize
  /\ sum' = SumHistory(lightHistory', 0)
  /\ sPc' = "sma"
  /\ UNCHANGED <<setupVars, syncVars, lightLevel, smaValue, rawLog, displayVars,
                 lcdVars, alarmVars, primeVars, envVars, dRaised>>

SamplerSteady == Sampler \/ SamplerReadSteady

InitSteady == InitWith(MaxCyclesSteady, {{0, 1}}, {MaxSmallRange})

NextSteady == Setup \/ SamplerSteady \/ Display \/ Lcd

FairSpecSteady ==
  /\ InitSteady
  /\ [][NextSteady]_vars
  /\ WF_vars(Setup)
  /\ WF_vars(SamplerSteady)
  /\ WF_vars(Display)
  /\ WF_vars(Lcd)

\* the display shows the pair now held in lightLevel and smaValue
ShowsPublished == lcd # EmptyMsg /\ MsgRaw(lcd) = lightLevel /\ MsgSma(lcd) = smaValue

\* C19: once the published pair stays constant (here: the sensor settles, and
\* the mean with it), under fair scheduling the message last rendered
\* eventually carries that pair, and keeps carrying it.  (The convergence the
\* specification implies; the code violates it.)
C19_DisplayConverges == (Len(rawLog) >= 1) ~> []ShowsPublished

\* C20: Sampler's cycle never blocks on its consumers: whatever the state of
\* the channel, of the two wake signals and of the other tasks, a started
\* cycle can always take its next step (publish, raise, raise), and a new
\* cycle can always start (the only limit being the number of cycles
\* explored).
C20_SamplerNeverBlocks ==
  /\ (Alive("LightDetector") /\ sPc = "sma") => ENABLED SamplerPublish
  /\ (Alive("LightDetector") /\ sPc = "giveD") => ENABLED SamplerGiveDisplay
  /\ (Alive("LightDetector") /\ sPc = "giveA") => ENABLED SamplerGiveAlarm
  /\ (Alive("LightDetector") /\ sPc = "read" /\ Len(rawLog) < cycleCap)
       => ENABLED SamplerRead

\* the channel is full with DisplayComposer blocked on a sixth send, the alarm
\* signal is pending, and Sampler, in its sixth cycle, can raise it again
C20_Witness ==
  /\ QueueFull
  /\ dPc = "send"
  /\ ~ENABLED Display
  /\ alarmSemaphore = 1
  /\ sPc = "giveA"
  /\ Len(rawLog) = 6
  /\ ENABLED SamplerGiveAlarm

=============================================================================
